---- MODULE Spec2Model ----
(***************************************************************************)
(* NVDARemoteServer-Simple: the connection and channel runtime.            *)
(*                                                                         *)
(* Every connection has two goroutines: the reader (Client.handler) and    *)
(* the write-pump worker (writech.start).  A goroutine is a call stack of  *)
(* frames; the frame on top is the function that is running.               *)
(*                                                                         *)
(* A step of the model is one access to state that goroutines share (the   *)
(* registry, a pump's queue and flags, a once, a socket, Client.channel),  *)
(* together with what the goroutine does on its own before and after it:   *)
(* reading the next line, choosing the next member of the loop, returning  *)
(* from a call.  Server.mu.RLock is taken with the step that follows it    *)
(* and released with the step that precedes the release; a write-locked    *)
(* section calls nothing that can block and is one step.                   *)
(***************************************************************************)
EXTENDS Integers, Sequences, FiniteSets, TLC

\* ------------------------------------------------------------ bounds
NumClients == 3
\* vars.go sets WriteBufSize = 1024; the model runs the same code with a
\* queue of this capacity.
WriteBufSize == 2

Clients == 1 .. NumClients
Reader(c) == c
Worker(c) == NumClients + c
Procs == 1 .. (2 * NumClients)

\* ------------------------------------------------------------ protocol
TypeJoin == "join"
TypeGenerateKey == "generate_key"
TypeProtocolVersion == "protocol_version"
TypeMotd == "motd"
TypeChannelJoined == "channel_joined"
TypeClientJoined == "client_joined"
TypeClientLeft == "client_left"
TypeNvdaNotConnected == "nvda_not_connected"
TypeController == "master"
TypeControlled == "slave"
TypeError == "error"
TypeRelay == "relay"

\* strconv.Itoa, for n >= 0
Digit(d) ==
    CASE d = 0 -> "0" [] d = 1 -> "1" [] d = 2 -> "2" [] d = 3 -> "3" [] d = 4 -> "4"
      [] d = 5 -> "5" [] d = 6 -> "6" [] d = 7 -> "7" [] d = 8 -> "8" [] d = 9 -> "9"
RECURSIVE Itoa(_)
Itoa(n) == IF n < 10 THEN Digit(n) ELSE Itoa(n \div 10) \o Digit(n % 10)

\* generateKey: strconv.Itoa(rand.Intn(KeySpan) + KeyBase)
KeySpan == 90000000
KeyBase == 10000000
\* the values of rand.Intn(KeySpan) that are drawn: the least two and the
\* greatest
Intn == {0, 1, KeySpan - 1}
Keys == {Itoa(n + KeyBase) : n \in Intn}

\* A line read from a socket.  json = FALSE: the bytes do not decode.
\* origin is the value of an "origin" key the peer has put in (0: none).
Line(j, t, ch, ct, v) ==
    [json |-> j, type |-> t, channel |-> ch, connection_type |-> ct, version |-> v,
     origin |-> 0]
NoLine == Line(FALSE, "", "", "", 0)
BadJSON == Line(FALSE, "?", "", "", 0)
\* the peer closes the connection: ReadSlice answers io.EOF
EOF == Line(FALSE, "EOF", "", "", 0)
JoinLine(ch, ct) == Line(TRUE, TypeJoin, ch, ct, 0)
GenerateKeyLine == Line(TRUE, TypeGenerateKey, "", "", 0)
VersionLine(v) == Line(TRUE, TypeProtocolVersion, "", "", v)
KeyLine == Line(TRUE, "key", "", "", 0)
\* an object that carries an origin key of the peer's own
OriginLine(o) == [Line(TRUE, "braille", "", "", 0) EXCEPT !.origin = o]
\* the JSON value null: json.Unmarshal accepts it, sets a map to nil and
\* leaves a struct as it is
NullLine == Line(TRUE, "null", "", "", 0)


\* A frame handed to a write pump.  from is the client on whose behalf
\* the registry fanned the frame out (0: a direct reply), origin is the
\* value of the "origin" key (0: no such key).
Msg(t, f, l, o, uid, ids, ch) ==
    [type |-> t, from |-> f, line |-> l, origin |-> o, user_id |-> uid,
     user_ids |-> ids, channel |-> ch]
MsgErr == Msg(TypeError, 0, NoLine, 0, 0, {}, "")
MsgNotConnected == Msg(TypeNvdaNotConnected, 0, NoLine, 0, 0, {}, "")
NoMsg == Msg("", 0, NoLine, 0, 0, {}, "")

\* ------------------------------------------------------------ state
VARIABLES
    sendOrigin,      \* flag -sendorigin
    motdSet,         \* sendMotd has a text to send
    channels,        \* Server.channels
    nextID,          \* Server.nextID
    rlock,           \* goroutines holding Server.mu.RLock
    channel,         \* Client.channel
    connectionType,  \* Client.connectionType
    id,              \* Client.id
    version,         \* Client.version
    closed,          \* Client.closed
    once,            \* Client.once
    connOpen,        \* Client.conn not yet closed by the server
    sock,            \* frames written to Client.conn
    wclosed,         \* writech.closed
    wonce,           \* writech.once
    ch,              \* writech.ch: the buffered frames
    chState,         \* writech.ch: "open", "closed" or "nil"
    wgDone,          \* writech.wg has been released by the worker
    stack,           \* call stack of every goroutine
    input,           \* the lines each peer has sent and the reader has not read yet
    lossy,           \* the clients whose peer may vanish or stall: their socket writes may fail
    script           \* the lines each peer sends on its connection, in order

vars ==
    <<sendOrigin, motdSet, channels, nextID, rlock, channel, connectionType, id,
      version, closed, once, connOpen, sock, wclosed, wonce, ch, chState, wgDone,
      stack, input, lossy, script>>

srvVars == <<channels, nextID>>
cfgVars == <<sendOrigin, motdSet, script>>
cliVars == <<channel, connectionType, id, version>>
closeVars == <<closed, once, connOpen>>
pumpVars == <<wclosed, wonce, ch, chState, wgDone>>

\* ------------------------------------------------------------ frames
Frame(fn, pc, c, msg, snc, todo, sent) ==
    [fn |-> fn, pc |-> pc, c |-> c, msg |-> msg, snc |-> snc, todo |-> todo,
     sent |-> sent]
HandlerFrame(c, pc) == Frame("handler", pc, c, NoMsg, FALSE, {}, FALSE)
StartFrame(c, pc, buf) == Frame("start", pc, c, buf, FALSE, {}, FALSE)
AddClientFrame(c, pc) == Frame("addClient", pc, c, NoMsg, FALSE, {}, FALSE)
SendLineToChannelFrame(c, msg, snc, todo) ==
    Frame("SendLineToChannel", "range", c, msg, snc, todo, FALSE)
SendLineFrame(c, msg, pc) == Frame("SendLine", pc, c, msg, FALSE, {}, FALSE)
CloseFrame(c) == Frame("Close", "once", c, NoMsg, FALSE, {}, FALSE)
WClose(c) == Frame("writech.Close", "once", c, NoMsg, FALSE, {}, FALSE)

Top(p) == stack[p][Len(stack[p])]
Running(p, fn, pc) ==
    /\ stack[p] # <<>>
    /\ Top(p).fn = fn
    /\ Top(p).pc = pc
Below(p) == SubSeq(stack[p], 1, Len(stack[p]) - 1)
\* p's stack with the running function moved to pc
At(p, pc) == Below(p) \o <<[Top(p) EXCEPT !.pc = pc]>>

\* ------------------------------------------------------------ Init
\* A scenario: the lines each peer sends (in) and the clients that are
\* already members of a channel (pre: joined one after the other, in the
\* order of their numbers, every frame of these joins written).
Nobody == [c \in {} |-> [channel |-> "", connection_type |-> ""]]
Member(c, name, ct) == [x \in {c} |-> [channel |-> name, connection_type |-> ct]]

PreID(pre, c) == Cardinality({x \in DOMAIN pre : x <= c})
PreChannels(pre) ==
    [n \in {pre[c].channel : c \in DOMAIN pre} |->
        {c \in DOMAIN pre : pre[c].channel = n}]
PreChannelJoined(pre, c) ==
    [type |-> TypeChannelJoined, from |-> 0, line |-> NoLine, origin |-> 0,
     user_id |-> 0,
     user_ids |-> {PreID(pre, x) : x \in {y \in DOMAIN pre :
                      /\ y < c
                      /\ pre[y].channel = pre[c].channel
                      /\ pre[y].connection_type # pre[c].connection_type}},
     channel |-> pre[c].channel]

\* the client_joined frames c has got from the members that joined after it
RECURSIVE PreClientJoined(_, _, _)
PreClientJoined(pre, c, y) ==
    IF y > NumClients
    THEN <<>>
    ELSE (IF /\ y \in DOMAIN pre
             /\ y > c
             /\ pre[y].channel = pre[c].channel
             /\ pre[y].connection_type # pre[c].connection_type
          THEN <<Msg(TypeClientJoined, y, NoLine, 0, PreID(pre, y), {}, "")>>
          ELSE <<>>) \o PreClientJoined(pre, c, y + 1)
PreSock(pre, c, motd) ==
    <<PreChannelJoined(pre, c)>>
        \o (IF motd THEN <<Msg(TypeMotd, 0, NoLine, 0, 0, {}, "")>> ELSE <<>>)
        \o PreClientJoined(pre, c, 1)

InitWith(in, pre, origin, motd, bad) ==
    /\ sendOrigin = origin
    /\ motdSet = motd
    /\ channels = PreChannels(pre)
    /\ nextID = Cardinality(DOMAIN pre)
    /\ rlock = {}
    /\ channel = [c \in Clients |-> IF c \in DOMAIN pre THEN pre[c].channel ELSE ""]
    /\ connectionType =
           [c \in Clients |-> IF c \in DOMAIN pre THEN pre[c].connection_type ELSE ""]
    /\ id = [c \in Clients |-> IF c \in DOMAIN pre THEN PreID(pre, c) ELSE 0]
    /\ version = [c \in Clients |-> 0]
    /\ closed = [c \in Clients |-> FALSE]
    /\ once = [c \in Clients |-> "free"]
    /\ connOpen = [c \in Clients |-> TRUE]
    /\ sock = [c \in Clients |->
                  IF c \in DOMAIN pre THEN PreSock(pre, c, motd) ELSE <<>>]
    /\ wclosed = [c \in Clients |-> FALSE]
    /\ wonce = [c \in Clients |-> "free"]
    /\ ch = [c \in Clients |-> <<>>]
    /\ chState = [c \in Clients |-> "open"]
    /\ wgDone = [c \in Clients |-> FALSE]
    /\ stack =
           [p \in Procs |->
               IF p <= NumClients
               THEN <<HandlerFrame(p, "read")>>
               ELSE <<StartFrame(p - NumClients, "range", NoMsg)>>]
    /\ input = in
    /\ lossy = bad
    /\ script = in


\* ------------------------------------------------------------ registry
Exist(name) == name \in DOMAIN channels
Members(name) == IF Exist(name) THEN channels[name] ELSE {}

\* SendLineToChannel's loop condition: the members the line goes to.
RecipientsAnyRole(client) == {c \in Members(channel[client]) : client # c}
RecipientsAnyChannel(client) ==
    {c \in UNION {channels[n] : n \in DOMAIN channels} :
        client # c /\ connectionType[client] # connectionType[c]}
Recipients(client) ==
    {c \in Members(channel[client]) :
        client # c /\ connectionType[client] # connectionType[c]}

\* addClient's insertion: s.channels[client.channel][client] = struct{}{}
InsertedEverywhere(client) ==
    [n \in DOMAIN channels \cup {channel[client]} |-> Members(n) \cup {client}]
Inserted(client) ==
    [n \in DOMAIN channels \cup {channel[client]} |->
        IF n = channel[client] THEN Members(n) \cup {client} ELSE channels[n]]

\* addClient's snapshot of the peers, taken in the same locked section
PeersAnyRole(client) == {c \in Inserted(client)[channel[client]] : c # client}
Peers(client) ==
    {c \in Inserted(client)[channel[client]] :
        c # client /\ connectionType[c] # connectionType[client]}

\* removeClient's deletion, with the entry dropped when the set is empty
DeletedKeepEntry(client) ==
    [n \in DOMAIN channels |->
        IF n = channel[client] THEN channels[n] \ {client} ELSE channels[n]]
Deleted(client) ==
    LET name == channel[client]
        rest == Members(name) \ {client}
    IN  [n \in IF rest = {} THEN DOMAIN channels \ {name} ELSE DOMAIN channels |->
            IF n = name THEN rest ELSE channels[n]]

\* handleChannel: what a joined client's line is relayed as.  With
\* sendOrigin the decoded object gets origin = client.id, whatever origin
\* it came with; a line that does not decode, and every line without
\* sendOrigin, goes out as it came.
RelayMsgKeepOrigin(client, l) == Msg(TypeRelay, client, l, l.origin, 0, {}, "")
RelayMsg(client, l) ==
    IF sendOrigin /\ l.json
    THEN Msg(TypeRelay, client, l, id[client], 0, {}, "")
    ELSE Msg(TypeRelay, client, l, l.origin, 0, {}, "")

ClientJoinedMsgOrigin(client) ==
    Msg(TypeClientJoined, client, NoLine, id[client], id[client], {}, "")
ClientJoinedMsg(client) == Msg(TypeClientJoined, client, NoLine, 0, id[client], {}, "")
ClientLeftMsgOrigin(client) ==
    Msg(TypeClientLeft, client, NoLine, id[client], id[client], {}, "")
ClientLeftMsg(client) == Msg(TypeClientLeft, client, NoLine, 0, id[client], {}, "")
ChannelJoinedMsg(client, ids) ==
    Msg(TypeChannelJoined, 0, NoLine, 0, 0, ids, channel[client])
GenerateKeyMsg(key) == Msg(TypeGenerateKey, 0, NoLine, 0, 0, {}, key)
MotdMsg == Msg(TypeMotd, 0, NoLine, 0, 0, {}, "")

\* ------------------------------------------------------------ calls and returns
\* Client.SendLine(c, msg) up to the answer of wch.isClosed(): a closed
\* pump answers net.ErrClosed and SendLine calls c.Close()
EnterUnchecked(c, msg) == <<SendLineFrame(c, msg, "send")>>
Enter(c, msg) ==
    IF wclosed[c] THEN <<CloseFrame(c)>> ELSE <<SendLineFrame(c, msg, "send")>>

\* SendLineToChannel after its loop: !sent && sendNotConnected && the
\* client is a controller
NotConnectedAnyRole(f) == ~f.sent /\ f.snc
NotConnected(f) == ~f.sent /\ f.snc /\ connectionType[f.c] = TypeController

\* SendLineToChannel from the head of its loop to the next wch.isClosed():
\* the next member in the map's order, or nvda_not_connected to the
\* client, or the end (<<>>: the function has returned).  sent is set by
\* the iteration that calls SendLine.
Advance(f) ==
    IF f.todo # {}
    THEN {<<[f EXCEPT !.todo = @ \ {c}, !.sent = TRUE]>> \o Enter(c, f.msg) : c \in f.todo}
    ELSE IF NotConnected(f)
         THEN {<<[f EXCEPT !.pc = "RUnlock"]>> \o Enter(f.c, MsgNotConnected)}
         ELSE {<<>>}

\* SendLineToChannel(client, line, sendNotConnected) from its call
SendLineToChannel(client, msg, snc) ==
    IF ~Exist(channel[client])
    THEN {<<>>}
    ELSE Advance(SendLineToChannelFrame(client, msg, snc, Recipients(client)))

\* p calls SendLineToChannel on top of the stack base
Fanout(p, base, client, msg, snc) ==
    \E fr \in SendLineToChannel(client, msg, snc) :
        /\ stack' = [stack EXCEPT ![p] = base \o fr]
        /\ rlock' = IF fr = <<>> THEN rlock ELSE rlock \cup {p}

\* What a goroutine does on its own once a call has returned to the stack
\* stk: a finished SendLineToChannel unlocks and returns, the body of
\* Client.Close ends (its once is done), handler returns into its deferred
\* Close, sendMotd has nothing to send.
RECURSIVE Settle(_)
Settle(stk) ==
    IF stk = <<>>
    THEN [stack |-> stk, unlock |-> FALSE, done |-> {}]
    ELSE LET f == stk[Len(stk)]
             below == SubSeq(stk, 1, Len(stk) - 1)
         IN  CASE /\ f.fn = "SendLineToChannel"
                  /\ f.pc = "RUnlock" \/ (f.todo = {} /\ ~NotConnected(f)) ->
                    [Settle(below) EXCEPT !.unlock = TRUE]
               [] f.fn = "Close" /\ f.pc = "done" ->
                    [Settle(below) EXCEPT !.done = @ \cup {f.c}]
               [] f.fn = "handler" /\ f.pc = "return" ->
                    [stack |-> below \o <<CloseFrame(f.c)>>, unlock |-> FALSE, done |-> {}]
               [] f.fn = "handler" /\ f.pc = "sendMotd" /\ ~motdSet ->
                    [stack |-> below \o <<HandlerFrame(f.c, "read")>>, unlock |-> FALSE,
                     done |-> {}]
               [] OTHER -> [stack |-> stk, unlock |-> FALSE, done |-> {}]

\* the running function of p has returned, leaving the stack stk
Finish(p, stk) ==
    LET r == Settle(stk) IN
        /\ stack' = [stack EXCEPT ![p] = r.stack]
        /\ rlock' = IF r.unlock THEN rlock \ {p} ELSE rlock
        /\ once' = [c \in Clients |-> IF c \in r.done THEN "done" ELSE once[c]]

\* ------------------------------------------------------------ Client.handler
\* the loop of handler has a line to read
Reading(c) ==
    /\ Running(Reader(c), "handler", "read")
    /\ input[c] # <<>>
    /\ Head(input[c]) # EOF
Handshaking(c) == Reading(c) /\ channel[c] = ""
Read(c) == input' = [input EXCEPT ![c] = Tail(@)]

\* buffer.ReadSlice fails (the peer has closed the connection, or the
\* server has closed the socket): handler returns, the deferred Close runs
HandlerReadError(c) ==
    /\ Running(Reader(c), "handler", "read")
    /\ \/ input[c] # <<>> /\ Head(input[c]) = EOF
       \/ ~connOpen[c]
    /\ stack' = [stack EXCEPT ![Reader(c)] = <<CloseFrame(c)>>]
    /\ UNCHANGED <<srvVars, cfgVars, cliVars, closeVars, pumpVars, rlock, sock, input,
                   lossy>>

\* SendMsgToChannel's msg["origin"] = client.id is an assignment to an
\* entry of a nil map when the line is null: the goroutine panics
Panics(l) == sendOrigin /\ l = NullLine

\* a line of a joined client: handleChannel
HandlerChannel(c) ==
    /\ Reading(c)
    /\ channel[c] # ""
    /\ ~Panics(Head(input[c]))
    /\ Fanout(Reader(c), stack[Reader(c)], c, RelayMsg(c, Head(input[c])), TRUE)
    /\ Read(c)
    /\ UNCHANGED <<srvVars, cfgVars, cliVars, closeVars, pumpVars, sock, lossy>>

\* handleChannel panics.  The deferred calls of handler run: panicCatch,
\* whose argument recover() was evaluated when the defer statement ran
\* and is nil, returns; then c.Close() runs.
HandlerPanic(c) ==
    /\ Reading(c)
    /\ channel[c] # ""
    /\ Panics(Head(input[c]))
    /\ stack' = [stack EXCEPT ![Reader(c)] = <<HandlerFrame(c, "panic"), CloseFrame(c)>>]
    /\ Read(c)
    /\ UNCHANGED <<srvVars, cfgVars, cliVars, closeVars, pumpVars, rlock, sock, lossy>>

\* the deferred calls have returned and the goroutine is still panicking:
\* the runtime ends the process, with every goroutine and every socket
Crash(p) ==
    /\ Running(p, "handler", "panic")
    /\ stack' = [q \in Procs |-> <<>>]
    /\ connOpen' = [c \in Clients |-> FALSE]
    /\ rlock' = {}
    /\ UNCHANGED <<srvVars, cfgVars, cliVars, closed, once, pumpVars, sock, input, lossy>>

\* a line before the join that json.Unmarshal rejects: return
HandlerInvalidJSON(c) ==
    /\ Handshaking(c)
    /\ ~Head(input[c]).json
    /\ stack' = [stack EXCEPT ![Reader(c)] = <<CloseFrame(c)>>]
    /\ Read(c)
    /\ UNCHANGED <<srvVars, cfgVars, cliVars, closeVars, pumpVars, rlock, sock, lossy>>

\* handleHandshake answers MsgErr and returns false
HandshakeError(c) ==
    /\ stack' = [stack EXCEPT ![Reader(c)] = <<HandlerFrame(c, "return")>> \o Enter(c, MsgErr)]
    /\ Read(c)
    /\ UNCHANGED <<srvVars, cfgVars, closeVars, pumpVars, rlock, sock, lossy>>

\* handleHandshake, case TypeJoin
HandshakeJoin(c) ==
    /\ Handshaking(c)
    /\ LET l == Head(input[c]) IN
          /\ l.json
          /\ l.type = TypeJoin
          /\ IF l.channel = "" \/ l.connection_type = ""
             THEN /\ HandshakeError(c)
                  /\ UNCHANGED cliVars
             ELSE /\ channel' = [channel EXCEPT ![c] = l.channel]
                  /\ connectionType' = [connectionType EXCEPT ![c] = l.connection_type]
                  /\ stack' = [stack EXCEPT ![Reader(c)] =
                        <<HandlerFrame(c, "sendMotd"), AddClientFrame(c, "getNextID")>>]
                  /\ Read(c)
                  /\ UNCHANGED <<srvVars, cfgVars, id, version, closeVars, pumpVars, rlock,
                                 sock, lossy>>

\* handleHandshake, case TypeGenerateKey: Server.generateKey draws until
\* the candidate is not a channel name
HandshakeGenerateKeyUnchecked(c) ==
    /\ Handshaking(c)
    /\ Head(input[c]).json
    /\ Head(input[c]).type = TypeGenerateKey
    /\ \E key \in Keys :
          stack' = [stack EXCEPT ![Reader(c)] =
                <<HandlerFrame(c, "read"), SendLineFrame(c, GenerateKeyMsg(key), "isClosed")>>]
    /\ Read(c)
    /\ UNCHANGED <<srvVars, cfgVars, cliVars, closeVars, pumpVars, rlock, sock, lossy>>
HandshakeGenerateKey(c) ==
    /\ Handshaking(c)
    /\ Head(input[c]).json
    /\ Head(input[c]).type = TypeGenerateKey
    /\ \E key \in Keys :
          /\ ~Exist(key)
          /\ stack' = [stack EXCEPT ![Reader(c)] =
                <<HandlerFrame(c, "read"), SendLineFrame(c, GenerateKeyMsg(key), "isClosed")>>]
    /\ Read(c)
    /\ UNCHANGED <<srvVars, cfgVars, cliVars, closeVars, pumpVars, rlock, sock, lossy>>

\* handleHandshake, case TypeProtocolVersion
HandshakeProtocolVersionUnhandled(c) ==
    /\ Handshaking(c)
    /\ Head(input[c]).json
    /\ Head(input[c]).type = TypeProtocolVersion
    /\ HandshakeError(c)
    /\ UNCHANGED cliVars
HandshakeProtocolVersion(c) ==
    /\ Handshaking(c)
    /\ LET l == Head(input[c]) IN
          /\ l.json
          /\ l.type = TypeProtocolVersion
          /\ IF l.version <= 0
             THEN /\ HandshakeError(c)
                  /\ UNCHANGED cliVars
             ELSE /\ version' = [version EXCEPT ![c] = l.version]
                  /\ Read(c)
                  /\ UNCHANGED <<srvVars, cfgVars, channel, connectionType, id, closeVars,
                                 pumpVars, rlock, sock, lossy, stack>>

\* handleHandshake, default
HandshakeUnknown(c) ==
    /\ Handshaking(c)
    /\ Head(input[c]).json
    /\ Head(input[c]).type \notin {TypeJoin, TypeGenerateKey, TypeProtocolVersion}
    /\ HandshakeError(c)
    /\ UNCHANGED cliVars

\* sendMotd, after addClient
SendMotd(c) ==
    /\ Running(Reader(c), "handler", "sendMotd")
    /\ motdSet
    /\ stack' = [stack EXCEPT ![Reader(c)] = <<HandlerFrame(c, "read")>> \o Enter(c, MotdMsg)]
    /\ UNCHANGED <<srvVars, cfgVars, cliVars, closeVars, pumpVars, rlock, sock, input,
                   lossy>>

\* ------------------------------------------------------------ Server.addClient
\* client.id = s.getNextID()
AddClientGetNextIDNoIncrement(p) ==
    /\ Running(p, "addClient", "getNextID")
    /\ rlock = {}
    /\ id' = [id EXCEPT ![Top(p).c] = nextID + 1]
    /\ stack' = [stack EXCEPT ![p] = At(p, "SendMsgToChannel")]
    /\ UNCHANGED <<srvVars, cfgVars, channel, connectionType, version, closeVars,
                   pumpVars, rlock, sock, input, lossy>>
AddClientGetNextID(p) ==
    /\ Running(p, "addClient", "getNextID")
    /\ rlock = {}
    /\ nextID' = nextID + 1
    /\ id' = [id EXCEPT ![Top(p).c] = nextID + 1]
    /\ stack' = [stack EXCEPT ![p] = At(p, "SendMsgToChannel")]
    /\ UNCHANGED <<channels, cfgVars, channel, connectionType, version, closeVars,
                   pumpVars, rlock, sock, input, lossy>>

\* the client_joined broadcast, before the client is inserted
AddClientJoined(p) ==
    /\ Running(p, "addClient", "SendMsgToChannel")
    /\ Fanout(p, At(p, "Lock"), Top(p).c, ClientJoinedMsg(Top(p).c), FALSE)
    /\ UNCHANGED <<srvVars, cfgVars, cliVars, closeVars, pumpVars, sock, input, lossy>>

\* the write-locked section: insert, snapshot the peers of the other
\* role; then channel_joined goes to the client itself
AddClientInsertSending(p) ==
    /\ Running(p, "addClient", "Lock")
    /\ rlock = {}
    /\ LET client == Top(p).c IN
          /\ channels' = Inserted(client)
          /\ chState[client] = "open"
          /\ Len(ch[client]) < WriteBufSize
          /\ ch' = [ch EXCEPT ![client] =
                Append(@, ChannelJoinedMsg(client, {id[c] : c \in Peers(client)}))]
          /\ stack' = [stack EXCEPT ![p] = Below(p)]
    /\ UNCHANGED <<nextID, cfgVars, cliVars, closeVars, wclosed, wonce, chState, wgDone,
                   rlock, sock, input, lossy>>
AddClientInsert(p) ==
    /\ Running(p, "addClient", "Lock")
    /\ rlock = {}
    /\ LET client == Top(p).c IN
          /\ channels' = Inserted(client)
          /\ stack' = [stack EXCEPT ![p] = Below(p) \o
                <<SendLineFrame(client,
                    ChannelJoinedMsg(client, {id[c] : c \in Peers(client)}), "isClosed")>>]
    /\ UNCHANGED <<nextID, cfgVars, cliVars, closeVars, pumpVars, rlock, sock, input,
                   lossy>>

\* ------------------------------------------------------------ Server.SendLineToChannel
\* the loop goes on to the next member, or to nvda_not_connected
FanoutNext(p) ==
    /\ Running(p, "SendLineToChannel", "range")
    /\ \E fr \in Advance(Top(p)) : stack' = [stack EXCEPT ![p] = Below(p) \o fr]
    /\ UNCHANGED <<srvVars, cfgVars, cliVars, closeVars, pumpVars, rlock, sock, input,
                   lossy>>

\* ------------------------------------------------------------ Client.SendLine, writech.Write
\* wch.isClosed()
WriteIsClosed(p) ==
    /\ Running(p, "SendLine", "isClosed")
    /\ stack' = [stack EXCEPT ![p] = Below(p) \o Enter(Top(p).c, Top(p).msg)]
    /\ UNCHANGED <<srvVars, cfgVars, cliVars, closeVars, pumpVars, rlock, sock, input,
                   lossy>>

\* wch.ch <- p: blocks while the queue is full
WriteSendUnbounded(p) ==
    /\ Running(p, "SendLine", "send")
    /\ chState[Top(p).c] = "open"
    /\ ch' = [ch EXCEPT ![Top(p).c] = Append(@, Top(p).msg)]
    /\ Finish(p, Below(p))
    /\ UNCHANGED <<srvVars, cfgVars, cliVars, closed, connOpen, wclosed, wonce, chState,
                   wgDone, sock, input, lossy>>
WriteSendFirst(p) ==
    /\ Running(p, "SendLine", "send")
    /\ chState[Top(p).c] = "open"
    /\ Len(ch[Top(p).c]) < WriteBufSize
    /\ ch' = [ch EXCEPT ![Top(p).c] = <<Top(p).msg>> \o @]
    /\ Finish(p, Below(p))
    /\ UNCHANGED <<srvVars, cfgVars, cliVars, closed, connOpen, wclosed, wonce, chState,
                   wgDone, sock, input, lossy>>
WriteSend(p) ==
    /\ Running(p, "SendLine", "send")
    /\ chState[Top(p).c] = "open"
    /\ Len(ch[Top(p).c]) < WriteBufSize
    /\ ch' = [ch EXCEPT ![Top(p).c] = Append(@, Top(p).msg)]
    /\ Finish(p, Below(p))
    /\ UNCHANGED <<srvVars, cfgVars, cliVars, closed, connOpen, wclosed, wonce, chState,
                   wgDone, sock, input, lossy>>

\* wch.ch <- p on the closed queue panics; Write recovers, answers
\* net.ErrClosed and SendLine calls c.Close().  After wch.ch = nil the
\* unsynchronised read of wch.ch may still see the closed queue.
WriteSendClosed(p) ==
    /\ Running(p, "SendLine", "send")
    /\ chState[Top(p).c] \in {"closed", "nil"}
    /\ stack' = [stack EXCEPT ![p] = Below(p) \o <<CloseFrame(Top(p).c)>>]
    /\ UNCHANGED <<srvVars, cfgVars, cliVars, closeVars, pumpVars, rlock, sock, input,
                   lossy>>

\* ... or it sees nil: a send on a nil channel never returns
WriteSendNil(p) ==
    /\ Running(p, "SendLine", "send")
    /\ chState[Top(p).c] = "nil"
    /\ stack' = [stack EXCEPT ![p] = At(p, "nil")]
    /\ UNCHANGED <<srvVars, cfgVars, cliVars, closeVars, pumpVars, rlock, sock, input,
                   lossy>>

\* ------------------------------------------------------------ Client.Close
\* c.once.Do: the first caller runs the body (c.closed = true, then the
\* test of c.channel), a caller that finds it running waits for it, a
\* later caller returns at once
CloseOnceAgain(p) ==
    /\ Running(p, "Close", "once")
    /\ LET c == Top(p).c IN
          /\ once[c] # "running"
          /\ once' = [once EXCEPT ![c] = "running"]
          /\ closed' = [closed EXCEPT ![c] = TRUE]
          /\ stack' = [stack EXCEPT ![p] =
                At(p, IF channel[c] # "" THEN "removeClient" ELSE "conn")]
          /\ UNCHANGED rlock
    /\ UNCHANGED <<srvVars, cfgVars, cliVars, connOpen, pumpVars, sock, input, lossy>>
CloseOnce(p) ==
    /\ Running(p, "Close", "once")
    /\ LET c == Top(p).c IN
          /\ once[c] # "running"
          /\ IF once[c] = "done"
             THEN /\ Finish(p, Below(p))
                  /\ UNCHANGED closed
             ELSE /\ once' = [once EXCEPT ![c] = "running"]
                  /\ closed' = [closed EXCEPT ![c] = TRUE]
                  /\ stack' = [stack EXCEPT ![p] =
                        At(p, IF channel[c] # "" THEN "removeClient" ELSE "conn")]
                  /\ UNCHANGED rlock
    /\ UNCHANGED <<srvVars, cfgVars, cliVars, connOpen, pumpVars, sock, input, lossy>>

\* Server.removeClient: the write-locked deletion
RemoveClient(p) ==
    /\ Running(p, "Close", "removeClient")
    /\ rlock = {}
    /\ channels' = Deleted(Top(p).c)
    /\ stack' = [stack EXCEPT ![p] =
          At(p, IF Members(channel[Top(p).c]) \ {Top(p).c} = {} THEN "conn" ELSE "send")]
    /\ UNCHANGED <<nextID, cfgVars, cliVars, closeVars, pumpVars, rlock, sock, input,
                   lossy>>

\* Server.removeClient: client_left to the members that remain
RemoveClientLeft(p) ==
    /\ Running(p, "Close", "send")
    /\ Fanout(p, At(p, "conn"), Top(p).c, ClientLeftMsg(Top(p).c), FALSE)
    /\ UNCHANGED <<srvVars, cfgVars, cliVars, closeVars, pumpVars, sock, input, lossy>>

\* c.conn.Close(), then the call of c.w.Close()
CloseConn(p) ==
    /\ Running(p, "Close", "conn")
    /\ connOpen' = [connOpen EXCEPT ![Top(p).c] = FALSE]
    /\ stack' = [stack EXCEPT ![p] = At(p, "done") \o <<WClose(Top(p).c)>>]
    /\ UNCHANGED <<srvVars, cfgVars, cliVars, closed, once, pumpVars, rlock, sock, input,
                   lossy>>

\* ------------------------------------------------------------ writech.Close
\* wch.once.Do: closed = true; close(wch.ch)
WCloseOnce(p) ==
    /\ Running(p, "writech.Close", "once")
    /\ LET c == Top(p).c IN
          /\ wonce[c] # "running"
          /\ IF wonce[c] = "done"
             THEN /\ Finish(p, Below(p))
                  /\ UNCHANGED <<wclosed, wonce, chState>>
             ELSE /\ wonce' = [wonce EXCEPT ![c] = "running"]
                  /\ wclosed' = [wclosed EXCEPT ![c] = TRUE]
                  /\ chState' = [chState EXCEPT ![c] = "closed"]
                  /\ stack' = [stack EXCEPT ![p] = At(p, "Wait")]
                  /\ UNCHANGED <<rlock, once>>
    /\ UNCHANGED <<srvVars, cfgVars, cliVars, closed, connOpen, ch, wgDone, sock, input,
                   lossy>>

\* wch.wg.Wait(); wch.ch = nil
WCloseWait(p) ==
    /\ Running(p, "writech.Close", "Wait")
    /\ wgDone[Top(p).c]
    /\ chState' = [chState EXCEPT ![Top(p).c] = "nil"]
    /\ wonce' = [wonce EXCEPT ![Top(p).c] = "done"]
    /\ Finish(p, Below(p))
    /\ UNCHANGED <<srvVars, cfgVars, cliVars, closed, connOpen, wclosed, ch, wgDone, sock,
                   input, lossy>>

\* ------------------------------------------------------------ writech.start
\* the deferred calls of start, last first: wg.Done(), wch.Close(),
\* c.Close()
StartDeferred(c) == <<CloseFrame(c), WClose(c)>>

\* for buf := range wch.ch
StartReceive(c) ==
    /\ Running(Worker(c), "start", "range")
    /\ ch[c] # <<>>
    /\ ch' = [ch EXCEPT ![c] = Tail(@)]
    /\ stack' = [stack EXCEPT ![Worker(c)] = <<StartFrame(c, "Write", Head(ch[c]))>>]
    /\ UNCHANGED <<srvVars, cfgVars, cliVars, closeVars, wclosed, wonce, chState, wgDone,
                   rlock, sock, input, lossy>>

\* the queue is closed and drained: the loop ends
StartRangeEnd(c) ==
    /\ Running(Worker(c), "start", "range")
    /\ ch[c] = <<>>
    /\ chState[c] = "closed"
    /\ wgDone' = [wgDone EXCEPT ![c] = TRUE]
    /\ stack' = [stack EXCEPT ![Worker(c)] = StartDeferred(c)]
    /\ UNCHANGED <<srvVars, cfgVars, cliVars, closeVars, wclosed, wonce, ch, chState,
                   rlock, sock, input, lossy>>

\* c.conn.Write(buf) succeeds
StartWrite(c) ==
    /\ Running(Worker(c), "start", "Write")
    /\ connOpen[c]
    /\ sock' = [sock EXCEPT ![c] = Append(@, Top(Worker(c)).msg)]
    /\ stack' = [stack EXCEPT ![Worker(c)] = <<StartFrame(c, "range", NoMsg)>>]
    /\ UNCHANGED <<srvVars, cfgVars, cliVars, closeVars, pumpVars, rlock, input, lossy>>

\* c.conn.Write(buf) fails: the server has closed the socket, or the peer
\* is gone or too slow for the write deadline: return
StartWriteError(c) ==
    /\ Running(Worker(c), "start", "Write")
    /\ ~connOpen[c] \/ c \in lossy
    /\ wgDone' = [wgDone EXCEPT ![c] = TRUE]
    /\ stack' = [stack EXCEPT ![Worker(c)] = StartDeferred(c)]
    /\ UNCHANGED <<srvVars, cfgVars, cliVars, closeVars, wclosed, wonce, ch, chState,
                   rlock, sock, input, lossy>>

\* ------------------------------------------------------------ Next
Next ==
    \/ \E c \in Clients : HandlerReadError(c)
    \/ \E c \in Clients : HandlerChannel(c)
    \/ \E c \in Clients : HandlerPanic(c)
    \/ \E p \in Procs : Crash(p)
    \/ \E c \in Clients : HandlerInvalidJSON(c)
    \/ \E c \in Clients : HandshakeJoin(c)
    \/ \E c \in Clients : HandshakeGenerateKey(c)
    \/ \E c \in Clients : HandshakeProtocolVersion(c)
    \/ \E c \in Clients : HandshakeUnknown(c)
    \/ \E c \in Clients : SendMotd(c)
    \/ \E p \in Procs : AddClientGetNextID(p)
    \/ \E p \in Procs : AddClientJoined(p)
    \/ \E p \in Procs : AddClientInsert(p)
    \/ \E p \in Procs : FanoutNext(p)
    \/ \E p \in Procs : WriteIsClosed(p)
    \/ \E p \in Procs : WriteSend(p)
    \/ \E p \in Procs : WriteSendClosed(p)
    \/ \E p \in Procs : WriteSendNil(p)
    \/ \E p \in Procs : CloseOnce(p)
    \/ \E p \in Procs : RemoveClient(p)
    \/ \E p \in Procs : RemoveClientLeft(p)
    \/ \E p \in Procs : CloseConn(p)
    \/ \E p \in Procs : WCloseOnce(p)
    \/ \E p \in Procs : WCloseWait(p)
    \/ \E c \in Clients : StartReceive(c)
    \/ \E c \in Clients : StartRangeEnd(c)
    \/ \E c \in Clients : StartWrite(c)
    \/ \E c \in Clients : StartWriteError(c)

\* ------------------------------------------------------------ scenarios
Script(c1, c2, c3) ==
    [c \in Clients |-> IF c = 1 THEN c1 ELSE IF c = 2 THEN c2 ELSE IF c = 3 THEN c3 ELSE <<>>]

\* A controller joins a channel that holds a controlled client with a
\* failing peer and another controller, types a key and leaves.
InitRelay ==
    InitWith(Script(<<JoinLine("room", TypeController), KeyLine, EOF>>, <<>>, <<>>),
             Member(2, "room", TypeControlled) @@ Member(3, "room", TypeController),
             TRUE, FALSE, {2})

\* A controller joins two controlled clients and types a key.
InitPair ==
    InitWith(Script(<<JoinLine("room", TypeController), KeyLine>>, <<>>, <<>>),
             Member(2, "room", TypeControlled) @@ Member(3, "room", TypeControlled),
             TRUE, FALSE, {})

\* A controller and a controlled client meet in a new channel while
\* another channel is in use; the controlled client leaves.
InitChannels ==
    InitWith(Script(<<JoinLine("room", TypeController), BadJSON>>,
                    <<JoinLine("room", TypeControlled), EOF>>, <<>>),
             Member(3, Itoa(KeyBase), TypeControlled), TRUE, FALSE, {})

\* A controller and a controlled client whose peer may vanish join a new
\* channel at the same time and type; the controlled client leaves.
InitRace ==
    InitWith(Script(<<JoinLine("room", TypeController), KeyLine>>,
                    <<JoinLine("room", TypeControlled), KeyLine, EOF>>, <<>>),
             Nobody, TRUE, FALSE, {2})

\* Handshakes that keep the client handshaking, and protocol violations.
InitHandshake ==
    InitWith(Script(<<VersionLine(1), GenerateKeyLine, KeyLine>>, <<VersionLine(0)>>, <<>>),
             Nobody, TRUE, FALSE, {1})

\* A key is asked for while a channel has a key's name; a join without a
\* role; a line that does not decode.
InitViolation ==
    InitWith(Script(<<GenerateKeyLine, JoinLine(Itoa(KeyBase + 1), "")>>, <<BadJSON>>, <<>>),
             Member(3, Itoa(KeyBase), TypeControlled), TRUE, FALSE, {})

\* Lines that do not decode, with -sendorigin=false and a message of the day.
InitMotd ==
    InitWith(Script(<<JoinLine("room", TypeController), JoinLine(Itoa(KeyBase), TypeControlled)>>,
                    <<JoinLine("room", TypeControlled), BadJSON>>, <<>>),
             Nobody, FALSE, TRUE, {})

\* A controller whose peer may vanish asks for a key and joins the channel
\* of a controlled client, which types a key.
InitZombie ==
    InitWith(Script(<<GenerateKeyLine, JoinLine("room", TypeController), EOF>>,
                    <<KeyLine>>, <<>>),
             Member(2, "room", TypeControlled), TRUE, FALSE, {1})

\* Two controllers and a controlled client of one channel type at the
\* same time; one controller sends three lines, one with an origin of its
\* own and one that does not decode.
InitOrder ==
    InitWith(Script(<<KeyLine, OriginLine(2), BadJSON>>, <<KeyLine>>, <<KeyLine>>),
             Member(1, "room", TypeController) @@ Member(2, "room", TypeControlled)
                 @@ Member(3, "room", TypeController),
             TRUE, FALSE, {})

\* A controller sends the line null to its channel while the controlled
\* client types a key and a third client asks for a key.
InitPanic ==
    InitWith(Script(<<NullLine>>, <<KeyLine>>, <<GenerateKeyLine>>),
             Member(1, "room", TypeController) @@ Member(2, "room", TypeControlled),
             TRUE, FALSE, {})

\* A controller whose peer may vanish asks for a key and joins a channel
\* of its own.
InitAlone ==
    InitWith(Script(<<GenerateKeyLine, JoinLine("room", TypeController), EOF>>, <<>>, <<>>),
             Nobody, TRUE, FALSE, {1})

\* A controller joins two controlled clients, one of whose peers has
\* vanished, and types a key.
InitStall ==
    InitWith(Script(<<JoinLine("room", TypeController), KeyLine>>, <<>>, <<>>),
             Member(2, "room", TypeControlled) @@ Member(3, "room", TypeControlled),
             TRUE, FALSE, {2})

Init ==
    \/ InitRelay
    \/ InitPair
    \/ InitChannels
    \/ InitRace
    \/ InitHandshake
    \/ InitViolation
    \/ InitMotd
    \/ InitZombie
    \/ InitOrder
    \/ InitPanic
    \/ InitAlone
    \/ InitStall

Spec == Init /\ [][Next]_vars

\* ------------------------------------------------------------ properties
Range(s) == {s[i] : i \in 1 .. Len(s)}
Frames(p) == Range(stack[p])

\* the frames that have been handed to r's pump and not been lost: queued,
\* held by the worker for conn.Write, or written to the socket
Pipeline(r) ==
    Range(ch[r]) \cup Range(sock[r]) \cup
    (IF Running(Worker(r), "start", "Write") THEN {Top(Worker(r)).msg} ELSE {})

\* the frame a step has appended to r's queue
Enqueued(r) == ch'[r][Len(ch'[r])]

\* the reader of c takes a line of the joined client c
ReadsChannelLine(c) ==
    /\ Reading(c)
    /\ channel[c] # ""
    /\ input'[c] = Tail(input[c])

\* C1: whatever is fanned out for a sender s (a relayed line, client_joined,
\* client_left) is handed only to clients other than s whose
\* connection_type differs from s's: this holds of every SendLine call in
\* progress and of every frame in a pump's queue, worker or socket.
C1_RoleAsymmetry ==
    /\ \A r \in Clients : \A m \in Pipeline(r) :
          m.from # 0 => m.from # r /\ connectionType[m.from] # connectionType[r]
    /\ \A p \in Procs : \A f \in Frames(p) :
          f.fn = "SendLine" /\ f.msg.from # 0 =>
              f.msg.from # f.c /\ connectionType[f.msg.from] # connectionType[f.c]

\* a controlled client holds the line of a controller while another
\* controller is a member of their channel
C1_Witness ==
    \E r \in Clients : \E m \in Pipeline(r) :
        /\ m.type = TypeRelay
        /\ \E x \in Members(channel[m.from]) \ {m.from} :
              connectionType[x] = connectionType[m.from] /\ ~wclosed[x]

\* C2: a frame fanned out for a client of channel X is queued only to a
\* client that is in X's member set when it is queued; the member sets
\* hold only clients whose channel they are, so neither a handshaking
\* client nor a member of another channel gets it.
C2_ChannelIsolation ==
    /\ [](\A n \in DOMAIN channels : \A c \in channels[n] : channel[c] = n)
    /\ [][\A r \in Clients :
            Len(ch'[r]) > Len(ch[r]) /\ Enqueued(r).from # 0 =>
                /\ r \in Members(channel[Enqueued(r).from])
                /\ channel[r] = channel[Enqueued(r).from]]_vars

\* a line has reached a member of one channel while another channel has
\* a member of the role it goes to
C2_Witness ==
    \E r \in Clients : \E m \in Pipeline(r) :
        /\ m.type = TypeRelay
        /\ \E x \in Clients \ {r} :
              /\ channel[x] \notin {"", channel[r]}
              /\ x \in Members(channel[x])
              /\ connectionType[x] = connectionType[r]

C4_SenderNotBlocked ==
    \A q \in Clients : \A f \in Frames(Reader(q)) :
        ~(f.fn = "Close" /\ f.c # q /\ f.pc = "removeClient" /\ Reader(q) \in rlock)

\* C5: the registry is never blocked for good: no goroutine waits for the
\* write lock (getNextID, addClient's insertion, removeClient) while the
\* read lock is held by a goroutine that is itself waiting for the write
\* lock or for a once whose runner waits for the write lock.
WaitsForLock(p) ==
    \/ Running(p, "addClient", "getNextID")
    \/ Running(p, "addClient", "Lock")
    \/ Running(p, "Close", "removeClient")
WaitsForOnce(p) ==
    /\ Running(p, "Close", "once")
    /\ once[Top(p).c] = "running"
    /\ \E o \in Procs : \E f \in Frames(o) :
          f.fn = "Close" /\ f.c = Top(p).c /\ f.pc = "removeClient"
C5_RegistryNotBlocked ==
    \A h \in rlock : \A p \in Procs \ {h} :
        ~(WaitsForLock(p) /\ (WaitsForLock(h) \/ WaitsForOnce(h)))

\* C6: once a client's socket is closed, no invalid_parameters frame for
\* that client is still waiting in its pump: the error frame is written
\* before the close.
C6_ErrorBeforeClose ==
    \A c \in Clients :
        ~connOpen[c] =>
            /\ MsgErr \notin Range(ch[c])
            /\ ~(Running(Worker(c), "start", "Write") /\ Top(Worker(c)).msg = MsgErr)

\* C7: the step in which the reader of a client that has not joined takes
\* a line that is not JSON calls SendLine with the invalid_parameters frame
\* for that client.
C7_ErrorOnInvalidJSON ==
    [][\A c \in Clients :
          Handshaking(c) /\ ~Head(input[c]).json /\ input'[c] = Tail(input[c]) =>
              \E f \in Range(stack'[Reader(c)]) :
                  f.fn = "SendLine" /\ f.c = c /\ f.msg = MsgErr]_vars

\* C8: the step in which the reader takes a line of a client whose channel
\* is set leaves the client's channel, role, ID and version as they are,
\* stays in the read loop, calls Close only if the client's pump is closed
\* already, creates no error reply, and either starts the fan-out of that
\* line or finds nobody to send it to; a client with a channel never has
\* an error frame in its pump.
C8_JoinedLinesRelayed ==
    /\ [](\A c \in Clients : channel[c] # "" => MsgErr \notin Pipeline(c))
    /\ [][\A c \in Clients : ReadsChannelLine(c) =>
            LET stk == stack'[Reader(c)] IN
            /\ channel'[c] = channel[c]
            /\ connectionType'[c] = connectionType[c]
            /\ id'[c] = id[c]
            /\ version'[c] = version[c]
            /\ channels' = channels
            /\ once' = once
            /\ stk[1] = HandlerFrame(c, "read")
            /\ \A f \in Range(stk) : f.msg # MsgErr
            /\ \A f \in Range(stk) : f.fn = "Close" => wclosed[f.c]
            /\ \/ Len(stk) = 1 /\ (Recipients(c) = {} \/ ~Exist(channel[c]))
               \/ /\ Len(stk) = 3
                  /\ stk[2].fn = "SendLineToChannel"
                  /\ stk[2].msg.line = Head(input[c])
                  /\ stk[2].msg.from = c]_vars

\* C9: the step in which the reader takes generate_key, or protocol_version
\* with version > 0, of a client that has not joined leaves the client
\* without channel, role and ID and in no member set, leaves its socket and
\* its once as they are, changes no other client's queue or socket, and
\* stays in the read loop with at most the generate_key reply to the
\* client itself to send; such a reply only ever goes to the client whose
\* reader asked for it.
C9_StillHandshaking ==
    /\ [](\A p \in Procs : \A f \in Frames(p) :
            f.fn = "SendLine" /\ f.msg.type = TypeGenerateKey => p = Reader(f.c))
    /\ [][\A c \in Clients :
            /\ Handshaking(c)
            /\ Head(input[c]).json
            /\ \/ Head(input[c]).type = TypeGenerateKey
               \/ Head(input[c]).type = TypeProtocolVersion /\ Head(input[c]).version > 0
            /\ input'[c] = Tail(input[c])
            => LET stk == stack'[Reader(c)] IN
               /\ channel'[c] = "" /\ connectionType'[c] = "" /\ id'[c] = 0
               /\ \A n \in DOMAIN channels' : c \notin channels'[n]
               /\ connOpen' = connOpen /\ once' = once
               /\ \A d \in Clients \ {c} : ch'[d] = ch[d] /\ sock'[d] = sock[d]
               /\ stk[1] = HandlerFrame(c, "read")
               /\ \A i \in 2 .. Len(stk) :
                     /\ stk[i].fn = "SendLine" /\ stk[i].c = c
                     /\ stk[i].msg.type = TypeGenerateKey
                     /\ Head(input[c]).type = TypeGenerateKey]_vars

\* a client has its version and its key and is about to have its next
\* line handled as a handshake
C9_Witness ==
    \E c \in Clients :
        /\ version[c] > 0
        /\ \E m \in Range(sock[c]) : m.type = TypeGenerateKey
        /\ Handshaking(c)
        /\ id[c] = 0 /\ connOpen[c]

\* the worker of r is in its loop and r's pump is open: what is queued
\* to r is not lost
PumpUp(r) ==
    /\ ~wclosed[r]
    /\ stack[Worker(r)] # <<>>
    /\ stack[Worker(r)][1].fn = "start"

\* the clients p's fan-out at stack[p][i] has left behind
Passed(p, i, among) ==
    among \ (stack[p][i].todo \cup
             (IF i < Len(stack[p]) THEN {stack[p][i + 1].c} ELSE {}))

JoinedFanouts ==
    {pi \in Procs \X (1 .. 4) :
        /\ pi[2] <= Len(stack[pi[1]])
        /\ stack[pi[1]][pi[2]].fn = "SendLineToChannel"
        /\ stack[pi[1]][pi[2]].msg.type = TypeClientJoined}

IsChannelJoinedFor(m, r) ==
    /\ m.channel = channel[r]
    /\ id[r] \notin m.user_ids
    /\ \A i \in m.user_ids : \E x \in Clients : id[x] = i
    /\ \A x \in Clients : id[x] \in m.user_ids =>
          x # r /\ channel[x] = channel[r] /\ connectionType[x] # connectionType[r]
C11_ChannelJoinedSnapshot ==
    /\ [](\A r \in Clients : \A m \in Pipeline(r) :
            m.type = TypeChannelJoined => IsChannelJoinedFor(m, r))
    /\ [](\A p \in Procs : \A f \in Frames(p) :
            f.fn = "SendLine" /\ f.msg.type = TypeChannelJoined =>
                p = Reader(f.c) /\ IsChannelJoinedFor(f.msg, f.c))
    /\ [][\A c \in Clients :
            c \notin Members(channel[c]) /\ channel[c] \in DOMAIN channels'
            /\ c \in channels'[channel[c]] =>
                LET stk == stack'[Reader(c)]
                    ids == {id[x] : x \in {y \in channels'[channel[c]] :
                                y # c /\ connectionType[y] # connectionType[c]}}
                IN  /\ stk[Len(stk)].fn = "SendLine"
                    /\ stk[Len(stk)].c = c
                    /\ stk[Len(stk)].msg =
                          Msg(TypeChannelJoined, 0, NoLine, 0, 0, ids, channel[c])]_vars

\* a controller has been told of the controlled member of its channel,
\* and not of the controller that was a member before it
C11_Witness ==
    \E c \in Clients : \E m \in Range(sock[c]) :
        /\ m.type = TypeChannelJoined
        /\ m.user_ids # {}
        /\ \E x \in Members(channel[c]) \ {c} :
              /\ connectionType[x] = connectionType[c]
              /\ id[x] > 0 /\ id[x] < id[c]
              /\ id[x] \notin m.user_ids

LeftFanouts ==
    {pi \in Procs \X (1 .. 4) :
        /\ pi[2] <= Len(stack[pi[1]])
        /\ stack[pi[1]][pi[2]].fn = "SendLineToChannel"
        /\ stack[pi[1]][pi[2]].msg.type = TypeClientLeft}

Leaves(c) ==
    /\ c \in Members(channel[c])
    /\ channel[c] \in DOMAIN channels' => c \notin channels'[channel[c]]

C13_ChannelsVanish ==
    /\ \A n \in DOMAIN channels : \A c \in channels[n] : once[c] # "done"
    /\ \A n \in DOMAIN channels : \E c \in Clients : channel[c] = n /\ once[c] # "done"

\* C14: the IDs in use are exactly 1 .. nextID, no two clients have the
\* same one, a client without a channel has ID 0 and a member of a channel
\* has an ID.  nextID never goes down; a client's ID changes only in the
\* getNextID step of its own join, from 0 to nextID + 1, which is greater
\* than every ID given before, and that step moves nextID to it.
C14_UniqueIDs ==
    /\ []({id[c] : c \in Clients} \ {0} = 1 .. nextID)
    /\ [](\A c, d \in Clients : c # d /\ id[c] # 0 => id[c] # id[d])
    /\ [](\A c \in Clients : channel[c] = "" => id[c] = 0)
    /\ [](\A n \in DOMAIN channels : \A c \in channels[n] : id[c] >= 1)
    /\ [][/\ nextID' >= nextID
          /\ \A c \in Clients : id'[c] # id[c] =>
                /\ id[c] = 0
                /\ Running(Reader(c), "addClient", "getNextID")
                /\ id'[c] = nextID + 1
                /\ nextID' = id'[c]
                /\ \A d \in Clients : id[d] < id'[c]
                /\ \A d \in Clients \ {c} : id'[d] = id[d]]_vars

\* two clients have joined at the same time, the second before the first;
\* one has left; the third has never joined
C14_Witness ==
    /\ id[2] = 1 /\ id[1] = 2
    /\ id[3] = 0 /\ channel[3] = ""
    /\ once[2] = "done"
    /\ 1 \in Members(channel[1])

\* the value of a decimal digit, and of a string of decimal digits
DigitValue(s) == CHOOSE d \in 0 .. 9 : Digit(d) = s
IsDigit(s) == \E d \in 0 .. 9 : Digit(d) = s
IsDecimal(s) == \A i \in 1 .. Len(s) : IsDigit(SubSeq(s, i, i))
RECURSIVE Atoi(_)
Atoi(s) ==
    IF Len(s) = 0
    THEN 0
    ELSE Atoi(SubSeq(s, 1, Len(s) - 1)) * 10 + DigitValue(SubSeq(s, Len(s), Len(s)))

IsKey(s) ==
    /\ Len(s) = 8
    /\ IsDecimal(s)
    /\ Atoi(s) >= 10000000 /\ Atoi(s) <= 99999999
    /\ Itoa(Atoi(s)) = s

\* C15: the step in which the reader takes generate_key goes on to send
\* the client a generate_key frame whose key is a string of exactly 8
\* decimal digits, the decimal form of an integer in 10000000 .. 99999999,
\* and is not a key of the registry as that step finds it; every
\* generate_key frame anywhere carries such a string.
C15_GeneratedKey ==
    /\ [](\A r \in Clients : \A m \in Pipeline(r) :
            m.type = TypeGenerateKey => IsKey(m.channel))
    /\ [][\A c \in Clients :
            /\ Handshaking(c)
            /\ Head(input[c]).json
            /\ Head(input[c]).type = TypeGenerateKey
            /\ input'[c] = Tail(input[c])
            => LET f == stack'[Reader(c)][Len(stack'[Reader(c)])] IN
               /\ f.fn = "SendLine" /\ f.c = c
               /\ f.msg.type = TypeGenerateKey
               /\ IsKey(f.msg.channel)
               /\ f.msg.channel \notin DOMAIN channels]_vars

\* a client has been given the greatest key while the least key is the
\* name of a channel in use
C15_Witness ==
    \E c \in Clients : \E m \in Range(sock[c]) :
        /\ m.type = TypeGenerateKey
        /\ m.channel = "99999999"
        /\ Exist("10000000")

\* what has been handed to r's pump and not been lost, in the order of
\* the hand-over: written, held by the worker for conn.Write, queued
History(r) ==
    sock[r] \o
    (IF Running(Worker(r), "start", "Write") THEN <<Top(Worker(r)).msg>> ELSE <<>>) \o
    ch[r]

\* the relayed lines of s in a sequence of frames
RelayedFrom(s, h) ==
    LET FromS(m) == m.type = TypeRelay /\ m.from = s IN SelectSeq(h, FromS)

\* the place of the line l among the lines that s's peer sends
Pos(s, l) == CHOOSE i \in 1 .. Len(script[s]) : script[s][i] = l

\* C16: for every sender s and recipient r, the lines of s that r's pump
\* holds (written to the socket, in the worker's hands, queued) are lines
\* that s's peer has sent, in the order in which it sent them, which is
\* the order in which s's reader took them, none twice; while r's pump is
\* up there is no gap between them.
C16_OrderPreserved ==
    \A s, r \in Clients :
        LET h == RelayedFrom(s, History(r)) IN
        /\ \A i \in 1 .. Len(h) : h[i].line \in Range(script[s])
        /\ \A i, j \in 1 .. Len(h) :
              i < j => Pos(s, h[i].line) < Pos(s, h[j].line)
        /\ PumpUp(r) =>
              \A i \in 1 .. Len(h) - 1 : Pos(s, h[i + 1].line) = Pos(s, h[i].line) + 1

\* the controlled client has been written the first and the second line
\* of one controller with the line of the other controller between them
C16_Witness ==
    \E i, j, k \in 1 .. Len(sock[2]) :
        /\ i < j /\ j < k
        /\ sock[2][i].from = 1 /\ sock[2][i].line = KeyLine
        /\ sock[2][j].from = 3 /\ sock[2][j].type = TypeRelay
        /\ sock[2][k].from = 1 /\ sock[2][k].line = OriginLine(2)

\* the line decodes, and what it decodes to is a JSON object
IsObject(l) == l.json /\ l # NullLine

\* what C17 asks of the relay of the line l of sender c
Relayed(c, l, m) ==
    /\ m.type = TypeRelay /\ m.from = c /\ m.line = l
    /\ IsObject(l) => m.origin = id[c] /\ id[c] >= 1
    /\ ~l.json => m.origin = 0

\* C17: with sendOrigin, the step in which the reader takes a line of the
\* joined client c that is an object, or that does not decode, fans out
\* that line and nothing else: the object with origin = c's ID in place of
\* any origin it came with, the line that does not decode as it came;
\* the reader stays in its loop and calls c's Close only if c's pump is
\* closed already.  A relayed line in a pump carries its sender's ID as
\* origin if it is an object and no origin if it does not decode.
C17_OriginInjected ==
    /\ [](sendOrigin =>
            \A r \in Clients : \A m \in Pipeline(r) :
                m.type = TypeRelay => Relayed(m.from, m.line, m))
    /\ [][sendOrigin =>
            \A c \in Clients :
                /\ ReadsChannelLine(c)
                /\ IsObject(Head(input[c])) \/ ~Head(input[c]).json
                => LET stk == stack'[Reader(c)] IN
                   /\ stk[1] = HandlerFrame(c, "read")
                   /\ closed' = closed /\ once' = once /\ connOpen' = connOpen
                   /\ \A f \in Range(stk) : f.fn = "Close" /\ f.c = c => wclosed[c]
                   /\ Len(stk) > 1 =>
                         /\ stk[2].fn = "SendLineToChannel"
                         /\ Relayed(c, Head(input[c]), stk[2].msg)
                   /\ \A i \in 3 .. Len(stk) :
                         stk[i].fn = "SendLine" /\ stk[i].msg # MsgNotConnected =>
                             Relayed(c, Head(input[c]), stk[i].msg)]_vars

\* a line that came with an origin other than its sender's ID has been
\* written to a peer with the sender's ID as origin, and the line of the
\* same sender that does not decode is on its way to that peer
C17_Witness ==
    \E r \in Clients : \E m \in Range(sock[r]) :
        /\ m.type = TypeRelay
        /\ m.line.origin # 0
        /\ m.line.origin # id[m.from]
        /\ m.origin = id[m.from]
        /\ \E k \in Range(ch[r]) : k.from = m.from /\ ~k.line.json /\ k.origin = 0
        /\ ~closed[m.from]

\* C18: with a message of the day, a client's pump holds the motd frame
\* at most once and nothing but replies to its earlier generate_key lines
\* has been handed to the pump before it; without one, no pump holds a
\* motd frame.
C18_MotdFirst ==
    \A c \in Clients :
        LET h == History(c) IN
        /\ \A i, j \in 1 .. Len(h) : h[i].type = TypeMotd /\ h[j].type = TypeMotd => i = j
        /\ \A i \in 1 .. Len(h) :
              h[i].type = TypeMotd =>
                  /\ motdSet
                  /\ \A j \in 1 .. i - 1 : h[j].type = TypeGenerateKey

\* the client whose connection the goroutine p serves
ClientOf(p) == IF p <= NumClients THEN p ELSE p - NumClients

\* C19: a goroutine of a client ends only when that client's Close has
\* completed, and no other way: whatever happens in the handler of one
\* client (a panic included), the goroutines of the other clients, whose
\* Close has not run, are still there.
C19_PanicRecovered ==
    \A p \in Procs : stack[p] = <<>> => once[ClientOf(p)] = "done"

\* the calls of c's Close that are past once.Do's gate: in the body
CloseBodies(c) ==
    UNION {{<<p, i>> : i \in {j \in 1 .. Len(stack[p]) :
                /\ stack[p][j].fn = "Close"
                /\ stack[p][j].c = c
                /\ stack[p][j].pc # "once"}} : p \in Procs}

\* the client_left frames for c among the frames of h
LeftOf(c, h) ==
    LET IsLeft(m) == m.type = TypeClientLeft /\ m.from = c IN SelectSeq(h, IsLeft)

\* C20: of all the calls of c's Close at most one is ever in the body, and
\* only while c's once is running; the once goes from free to running to
\* done and never back, and the step that starts it is the one step that
\* sets c.closed.  closed, the closed socket and the closed pump stay as
\* they are once set; the queue goes from open to closed to nil and never
\* back.  c's socket is closed by the body of c's Close and by nothing
\* else in the running server, and c leaves a channel's set only in the
\* body.  When the once is done, c is closed, its socket is closed and its
\* pump is closed and drained.  No pump holds two client_left frames for
\* c, and at most one client_left broadcast for c is under way.
C20_CloseOnce ==
    /\ [](\A c \in Clients :
            /\ Cardinality(CloseBodies(c)) <= 1
            /\ CloseBodies(c) # {} => once[c] = "running"
            /\ once[c] # "free" <=> closed[c]
            /\ once[c] = "done" => ~connOpen[c] /\ wclosed[c])
    /\ [](\A c, r \in Clients : Len(LeftOf(c, History(r))) <= 1)
    /\ [](\A c \in Clients :
            Cardinality({pi \in LeftFanouts : stack[pi[1]][pi[2]].c = c}) <= 1)
    /\ [][\A c \in Clients :
            /\ closed[c] => closed'[c]
            /\ ~connOpen[c] => ~connOpen'[c]
            /\ wclosed[c] => wclosed'[c]
            /\ once'[c] # once[c] =>
                  \/ once[c] = "free" /\ once'[c] = "running"
                  \/ once[c] = "running" /\ once'[c] = "done"
            /\ chState'[c] # chState[c] =>
                  \/ chState[c] = "open" /\ chState'[c] = "closed"
                  \/ chState[c] = "closed" /\ chState'[c] = "nil"
            /\ connOpen[c] /\ ~connOpen'[c] /\ stack' # [q \in Procs |-> <<>>] =>
                  \E pi \in CloseBodies(c) : stack[pi[1]][pi[2]].pc = "conn"
            /\ Leaves(c) =>
                  \E pi \in CloseBodies(c) : stack[pi[1]][pi[2]].pc = "removeClient"]_vars

\* the worker of a client runs the body of its Close while the reader of
\* a peer, whose fan-out has called the same Close, waits at the once
C20_Witness ==
    \E c \in Clients : \E q \in Clients \ {c} :
        /\ \E pi \in CloseBodies(c) : pi[1] = Worker(c)
        /\ Running(Reader(q), "Close", "once")
        /\ Top(Reader(q)).c = c
        /\ Reader(q) \in rlock

\* no addClient and no removeClient is in progress
Quiet ==
    \A p \in Procs : \A f \in Frames(p) :
        /\ f.fn # "addClient"
        /\ ~(f.fn = "Close" /\ f.pc \in {"removeClient", "send"})

\* C21: every set of the registry has a member; and while no addClient
\* and no removeClient is in progress, the keys of the registry are the
\* names that are the channel of a client that is not closed.
C21_RegistryMatchesClients ==
    /\ \A n \in DOMAIN channels : channels[n] # {}
    /\ Quiet =>
          DOMAIN channels = {channel[c] : c \in {d \in Clients : ~closed[d]}} \ {""}

\* the join of c has completed: addClient has returned to handleHandshake
Joined(c) ==
    /\ id[c] # 0
    /\ \A f \in Frames(Reader(c)) : f.fn # "addClient"

\* the sets of the registry that c is a member of
SetsOf(c) == {n \in DOMAIN channels : c \in channels[n]}

\* C22: a member of the set of a name has that name as its channel, so no
\* client is in two sets; a client whose join has completed and whose
\* Close has not begun is in exactly one set, that of its channel.
C22_OneChannel ==
    \A c \in Clients :
        /\ \A n \in SetsOf(c) : channel[c] = n
        /\ Cardinality(SetsOf(c)) <= 1
        /\ Joined(c) /\ once[c] = "free" => SetsOf(c) = {channel[c]}

\* a client has joined one channel while another channel is in use, and
\* has not been closed
C22_Witness ==
    \E c \in Clients :
        /\ Joined(c) /\ once[c] = "free"
        /\ Running(Reader(c), "handler", "read")
        /\ input[c] # script[c]
        /\ \E n \in DOMAIN channels : n # channel[c]

\* the process has ended: no goroutine is left
Halted == \A p \in Procs : stack[p] = <<>>

\* C23: while the server runs, a client whose socket the server has closed
\* has its closed flag set and is in no set of the registry; while the
\* body of a client's Close is at the registry removal or at the
\* client_left broadcast the flag is set and the socket is still open; and
\* when the body is back from the pump's Close the socket is closed.
C23_CloseOrder ==
    \A c \in Clients :
        /\ ~Halted /\ ~connOpen[c] => closed[c] /\ SetsOf(c) = {}
        /\ \A pi \in CloseBodies(c) :
              LET f == stack[pi[1]][pi[2]] IN
              /\ f.pc \in {"removeClient", "send"} => closed[c] /\ connOpen[c]
              /\ f.pc = "done" => closed[c] /\ ~connOpen[c]

\* p is in writech.Write at the send to r's queue
Sending(p, r) == Running(p, "SendLine", "send") /\ Top(p).c = r

\* C24: a queue never holds more than WriteBufSize frames.  A step adds
\* at most one frame to a queue, at its end, for a goroutine that was at
\* the send to that queue, and only to a queue that was open and not
\* full; while the queue is full and open a goroutine at the send stays
\* there, and the only step that makes room is the worker's receive, which
\* takes the frame at the head.
C24_QueueBound ==
    /\ [](\A r \in Clients : Len(ch[r]) <= WriteBufSize)
    /\ [][\A r \in Clients :
            /\ ch'[r] # ch[r] =>
                  \/ /\ ch[r] # <<>>
                     /\ ch'[r] = Tail(ch[r])
                     /\ Running(Worker(r), "start", "range")
                     /\ stack'[Worker(r)] = <<StartFrame(r, "Write", Head(ch[r]))>>
                  \/ /\ Len(ch[r]) < WriteBufSize
                     /\ chState[r] = "open"
                     /\ \E p \in Procs :
                           /\ Sending(p, r)
                           /\ ch'[r] = Append(ch[r], Top(p).msg)
                           /\ stack'[p] # stack[p]
            /\ \A p \in Procs :
                  /\ Sending(p, r)
                  /\ Len(ch[r]) = WriteBufSize
                  /\ chState[r] = "open" /\ chState'[r] = "open"
                  /\ stack' # [q \in Procs |-> <<>>]
                  => stack'[p] = stack[p]]_vars

\* the queue of a client is full and open, and two goroutines wait at the
\* send to it
C24_Witness ==
    \E r \in Clients : \E p, q \in Procs :
        /\ p # q
        /\ Len(ch[r]) = WriteBufSize
        /\ chState[r] = "open"
        /\ Sending(p, r) /\ Sending(q, r)

\* the worker of c has left its loop and is in its deferred c.Close()
WorkerClosing(c) ==
    /\ stack[Worker(c)] # <<>>
    /\ stack[Worker(c)][1].fn = "Close"

\* C25: the worker of a client, in its deferred Close after its loop has
\* ended, never waits at the once of that Close while the body is run by
\* a goroutine that holds the registry's read lock and waits, in
\* removeClient, for the write lock (a wait that cannot end, so that the
\* client's socket is never closed and neither Close returns).
C25_WorkerCloseReturns ==
    \A c \in Clients :
        ~(/\ WorkerClosing(c)
          /\ Running(Worker(c), "Close", "once")
          /\ once[c] = "running"
          /\ connOpen[c]
          /\ \E q \in rlock : \E f \in Frames(q) :
                f.fn = "Close" /\ f.c = c /\ f.pc = "removeClient")

\* C26: once a pump is marked closed its queue never gets a frame; a
\* Write that tests the mark then does not go on to the send but answers
\* the error, on which SendLine calls the client's Close; and once the
\* pump's Close has returned nothing more is written to the socket.
C26_ClosedPumpRejects ==
    [][\A r \in Clients :
          /\ wclosed[r] => ch'[r] = ch[r] \/ (ch[r] # <<>> /\ ch'[r] = Tail(ch[r]))
          /\ wonce[r] = "done" => sock'[r] = sock[r]
          /\ \A p \in Procs :
                /\ wclosed[r]
                /\ stack'[p] # stack[p]
                /\ stack'[p] # <<>>
                => LET f == stack'[p][Len(stack'[p])] IN
                   /\ ~(f.fn = "SendLine" /\ f.c = r /\ f.pc = "send"
                        /\ ~(Running(p, "SendLine", "send") /\ Top(p).c = r))
                   /\ Running(p, "SendLine", "isClosed") /\ Top(p).c = r =>
                         f = CloseFrame(r)]_vars

\* the pump of a client is closed and its Close has returned; the reader
\* of a peer, whose fan-out has called SendLine for that client, has been
\* answered the error and is in the client's Close
C26_Witness ==
    \E r \in Clients : \E q \in Clients \ {r} :
        /\ wonce[r] = "done"
        /\ Len(stack[Reader(q)]) >= 3
        /\ stack[Reader(q)][2].fn = "SendLineToChannel"
        /\ stack[Reader(q)][3] = CloseFrame(r)
        /\ sock[r] # <<>>

\* C27: no goroutine is in writech.Write at a send on the nil queue (a
\* send that never returns): every Write that has found the pump not
\* closed returns.
C27_WriteReturns ==
    \A p \in Procs : \A f \in Frames(p) : ~(f.fn = "SendLine" /\ f.pc = "nil")

\* the step runs a section that holds the registry's write lock: it
\* changes the registry or the ID counter
WriteLocked == channels' # channels \/ nextID' # nextID

\* C28: a step that runs a write-locked section of the registry changes
\* no queue, no pump and no socket, and leaves no goroutine newly at a
\* send to a queue.  The client_joined broadcast runs in an addClient that
\* has its write-locked insertion still before it; the step of the
\* insertion leaves the client's reader at the start of the call that
\* sends channel_joined; the client_left broadcast runs in a Close whose
\* removeClient has left its write-locked section.
C28_NoEnqueueUnderWriteLock ==
    /\ [](\A pi \in JoinedFanouts :
            /\ pi[2] > 1
            /\ stack[pi[1]][pi[2] - 1] = AddClientFrame(stack[pi[1]][pi[2]].c, "Lock"))
    /\ [](\A pi \in LeftFanouts :
            /\ pi[2] > 1
            /\ stack[pi[1]][pi[2] - 1].fn = "Close"
            /\ stack[pi[1]][pi[2] - 1].pc = "conn")
    /\ [][WriteLocked =>
            /\ ch' = ch /\ sock' = sock
            /\ wclosed' = wclosed /\ chState' = chState
            /\ \A p \in Procs :
                  stack'[p] # stack[p] =>
                      LET f == stack'[p][Len(stack'[p])] IN
                      /\ f.pc # "send" \/ f.fn = "Close"
                      /\ f.fn = "SendLine" =>
                            /\ f.pc = "isClosed"
                            /\ f.msg.type = TypeChannelJoined
                            /\ f.c \in channels'[channel[f.c]]]_vars

\* a client has been inserted into a channel that had a member of the
\* other role, and has not yet been sent channel_joined; the member has
\* the client_joined notification
C28_Witness ==
    \E c \in Clients :
        /\ Running(Reader(c), "SendLine", "isClosed")
        /\ Top(Reader(c)).msg.type = TypeChannelJoined
        /\ c \in Members(channel[c])
        /\ ch[c] = <<>> /\ sock[c] = <<>>
        /\ \E r \in Recipients(c) : ClientJoinedMsg(c) \in Pipeline(r)

\* C29: every call of a client's Close is on the stack of that client's
\* own reader or of its own worker.
C29_OwnCloseOnly ==
    \A p \in Procs : \A f \in Frames(p) :
        f.fn = "Close" => p \in {Reader(f.c), Worker(f.c)}

\* the step in which p calls SendMsgToChannel for a membership
\* notification of the client c
Notifies(p, c) ==
    /\ stack'[p] # stack[p]
    /\ \/ Running(p, "addClient", "SendMsgToChannel")
       \/ Running(p, "Close", "send")
    /\ Top(p).c = c

\* C30: a client_joined or client_left frame has no origin, wherever it
\* is, and its fan-out does not report a missing peer; nvda_not_connected
\* is only ever sent from the fan-out of a relayed line.  The step that
\* calls the fan-out of a notification for a client with no recipient, or
\* of anything for a client whose channel is not a key of the registry,
\* changes no queue and calls no SendLine.
C30_NotificationsPlain ==
    /\ [](\A r \in Clients : \A m \in Pipeline(r) :
            m.type \in {TypeClientJoined, TypeClientLeft} => m.origin = 0)
    /\ [](\A p \in Procs : \A i \in 1 .. Len(stack[p]) :
            LET f == stack[p][i] IN
            /\ f.msg.type \in {TypeClientJoined, TypeClientLeft} =>
                  f.msg.origin = 0 /\ ~f.snc
            /\ f.fn = "SendLine" /\ f.msg = MsgNotConnected =>
                  /\ i > 1
                  /\ stack[p][i - 1].fn = "SendLineToChannel"
                  /\ stack[p][i - 1].msg.type = TypeRelay)
    /\ [][\A p \in Procs : \A c \in Clients :
            \/ Notifies(p, c) /\ (Recipients(c) = {} \/ ~Exist(channel[c]))
            \/ /\ p = Reader(c)
               /\ ReadsChannelLine(c)
               /\ ~Panics(Head(input[c]))
               /\ ~Exist(channel[c])
            => /\ ch' = ch
               /\ \A f \in Range(stack'[p]) :
                     f.fn \notin {"SendLine", "SendLineToChannel"}]_vars

\* a controller is leaving a channel in which only another controller
\* remains: its client_left broadcast has found no recipient, and no pump
\* holds nvda_not_connected
C30_Witness ==
    \E c \in Clients :
        /\ Running(Reader(c), "Close", "conn")
        /\ connectionType[c] = TypeController
        /\ Exist(channel[c])
        /\ Recipients(c) = {}
        /\ \A r \in Clients : MsgNotConnected \notin Pipeline(r)

\* addClient has returned for c: c has its ID, is past the insertion and
\* past the SendMsg of its channel_joined frame
Completed(c) ==
    /\ Joined(c)
    /\ \A f \in Frames(Reader(c)) :
          ~(f.fn = "SendLine" /\ f.msg.type = TypeChannelJoined)

\* c has been told of d among the first n frames handed to its pump: d's
\* ID is in a channel_joined snapshot, or the frame is d's client_joined
InformedBy(c, d, n) ==
    \E j \in 1 .. n :
        LET m == History(c)[j] IN
        \/ m.type = TypeChannelJoined /\ id[d] \in m.user_ids
        \/ m.type = TypeClientJoined /\ m.from = d

\* c is a member of its channel, has not begun to close, and nothing
\* handed to its pump has been lost
Settled(c) ==
    /\ Completed(c)
    /\ c \in Members(channel[c])
    /\ once[c] = "free"
    /\ PumpUp(c)

\* C31: two clients of different roles that have both completed
\* addClient for the same channel, are both members and have not begun to
\* close, and whose pumps have lost nothing, have each been handed the
\* other's ID, in channel_joined or in client_joined.
C31_MutualAwareness ==
    \A c, d \in Clients :
        /\ c # d
        /\ Settled(c) /\ Settled(d)
        /\ channel[c] = channel[d]
        /\ connectionType[c] # connectionType[d]
        => InformedBy(c, d, Len(History(c)))

\* the frame is one a client gets on account of its channel membership,
\* from or about another client
FromPeer(m) ==
    m.type \in {TypeRelay, TypeClientJoined, TypeClientLeft}

\* C32: among the frames handed to the pump of a joining client, none that
\* is relayed from a peer or that announces another client's joining or
\* leaving comes before the client's own channel_joined frame.
C32_ChannelJoinedFirst ==
    \A c \in Clients :
        PumpUp(c) =>
            \A i \in 1 .. Len(History(c)) :
                FromPeer(History(c)[i]) =>
                    \E j \in 1 .. i - 1 :
                        History(c)[j].type = TypeChannelJoined

\* C33: a client_left frame about a client is handed to the pump of another
\* client only after a frame that told the recipient of the leaving client:
\* a channel_joined snapshot listing its ID, or its client_joined.
C33_LeftOnlyIfInformed ==
    \A y \in Clients :
        PumpUp(y) =>
            \A i \in 1 .. Len(History(y)) :
                LET m == History(y)[i] IN
                m.type = TypeClientLeft => InformedBy(y, m.from, i - 1)

\* r is not closed, its socket is open and takes every write, and its
\* pump is up
Healthy(r) ==
    /\ ~closed[r]
    /\ connOpen[r]
    /\ r \notin lossy
    /\ PumpUp(r)

\* p is at a wait that no step of any goroutine ends: for the registry's
\* write lock while holding the read lock itself, for a once whose runner
\* waits for the write lock while holding the read lock itself, or at a
\* send on the nil queue
Stuck(p) ==
    \/ Running(p, "Close", "removeClient") /\ p \in rlock
    \/ WaitsForOnce(p) /\ p \in rlock
    \/ Running(p, "SendLine", "nil")

\* C34: a line that a sender's fan-out has still to hand to a healthy
\* member r gets there: the reader that runs the fan-out is never at a
\* wait that cannot end while r is still ahead in the loop (the line would
\* never be queued to r, and so never be written to r's socket).
C34_EventuallyDelivered ==
    \A s, r \in Clients : \A i \in 1 .. Len(stack[Reader(s)]) :
        LET f == stack[Reader(s)][i] IN
        /\ f.fn = "SendLineToChannel"
        /\ f.msg.type = TypeRelay
        /\ r \in f.todo
        /\ r \in Members(channel[s])
        /\ Healthy(r)
        => ~Stuck(Reader(s))

====
